---- MODULE Spec2Model ----
(***************************************************************************)
(* Model of script/inp_to_stl.py: convert_to_stl_with_gmsh(input_file,     *)
(* output_file).  The conversion is a linear pipeline; pc is the position  *)
(* of the call.  The calls into meshio, gmsh and os are external: each may *)
(* return or raise, and what they return (the mesh) is drawn from a        *)
(* bounded set of meshes.                                                  *)
(***************************************************************************)
EXTENDS Integers, Sequences, FiniteSets

VARIABLES pc, msh, temp_exists, node_tags, element_types, surface_elements,
          all_faces, triangles, stl_write_called, stl_written, stl_triangles,
          exc, result

vars == <<pc, msh, temp_exists, node_tags, element_types, surface_elements,
          all_faces, triangles, stl_write_called, stl_written, stl_triangles,
          exc, result>>

(* ---------------------------- bounds ----------------------------------- *)

\* element types (blocks) in one input mesh
MaxTypes == 2
\* elements of one type in one input mesh
MaxElems == 2
\* node identifiers 1..MaxNode are returned by the reader for a full mesh
MaxNode == 8
\* tetrahedra handed to the fallback pass when it is checked on its own
MaxTets == 3
\* node identifiers of those tetrahedra
MaxTetNode == 5

(* ------------------------- element type names -------------------------- *)

TetNames == {"4-node tetrahedron", "Tetrahedron", "tetra"}
HexNames == {"8-node hexahedron", "Hexahedron", "Hexahedron 8", "hexahedron"}
TriNames == {"3-node triangle", "Triangle", "triangle"}
QuadNames == {"4-node quadrangle", "Quadrangle", "quad"}

\* the if/elif chain of the direct pass reaches a branch other than the else
RecognizedLax(name) == TRUE
Recognized(name) == name \in TetNames \cup HexNames \cup TriNames \cup QuadNames

\* the names a mesh of the model may carry: names of every branch of the
\* direct pass, and a name gmsh reports that no branch lists
MeshNames == {"Tetrahedron", "tetra", "Hexahedron 8", "Triangle", "quad", "Line 2"}

\* '4-node tetrahedron' in elem_name or 'Tetrahedron' in elem_name: the
\* substring test of the fallback pass; of the names above, only these two
\* contain one of the substrings
FallbackTetName(name) == name \in {"4-node tetrahedron", "Tetrahedron"}

\* nodes per element of a type (the row width of reshape)
Width(name) ==
    CASE name \in TetNames -> 4
      [] name \in HexNames -> 8
      [] name \in TriNames -> 3
      [] name \in QuadNames -> 4
      [] OTHER -> 2

(* ----------------------------- input meshes ---------------------------- *)

Range(s) == {s[i] : i \in 1..Len(s)}

\* an element on the node identifiers b, b+1, ..., b+w-1
Win(b, w) == [i \in 1..w |-> b + i - 1]

\* k elements of a type; consecutive elements share all nodes but one
Conn(name, k) == [j \in 1..k |-> Win(j, Width(name))]

Blocks == {[name |-> n, conn |-> Conn(n, k)] : n \in MeshNames, k \in 1..MaxElems}

DistinctNames(s) == \A i, j \in 1..Len(s) : i # j => s[i].name # s[j].name

ElementTypeSeqs ==
    {s \in UNION {[1..m -> Blocks] : m \in 0..MaxTypes} : DistinctNames(s)}

Asc(n) == [i \in 1..n |-> i]
Desc(n) == [i \in 1..n |-> n + 1 - i]

\* node identifiers in read order: none, too few for any face, half of the
\* nodes, all nodes in reverse order
NodeTagChoices == {Asc(0), Desc(2), Asc(MaxNode \div 2), Desc(MaxNode)}

\* a mesh with an element has a node
Meshes ==
    {m \in {[nodes |-> n, blocks |-> b] : n \in NodeTagChoices, b \in ElementTypeSeqs} :
        m.blocks # << >> => m.nodes # << >>}

NoMesh == [nodes |-> <<>>, blocks |-> <<>>]

(* ------------------------ direct classification ------------------------ *)

TetFaces(tet) ==
    << <<tet[1], tet[2], tet[3]>>,
       <<tet[1], tet[2], tet[4]>>,
       <<tet[1], tet[3], tet[4]>>,
       <<tet[2], tet[3], tet[4]>> >>

HexFacesNone(h) == << >>
HexFacesShort(h) ==
    << <<h[1], h[2], h[3]>>, <<h[1], h[3], h[4]>>,
       <<h[5], h[6], h[7]>>, <<h[5], h[7], h[8]>>,
       <<h[1], h[2], h[6]>>, <<h[2], h[3], h[7]>>,
       <<h[3], h[4], h[8]>>, <<h[4], h[1], h[5]>> >>
HexFaces(h) ==
    << <<h[1], h[2], h[3]>>, <<h[1], h[3], h[4]>>,
       <<h[5], h[6], h[7]>>, <<h[5], h[7], h[8]>>,
       <<h[1], h[2], h[6]>>, <<h[1], h[6], h[5]>>,
       <<h[2], h[3], h[7]>>, <<h[2], h[7], h[6]>>,
       <<h[3], h[4], h[8]>>, <<h[3], h[8], h[7]>>,
       <<h[4], h[1], h[5]>>, <<h[4], h[5], h[8]>> >>

TriFaces(tri) == << <<tri[1], tri[2], tri[3]>> >>

QuadFaces(quad) ==
    << <<quad[1], quad[2], quad[3]>>, <<quad[1], quad[3], quad[4]>> >>

\* the faces one element adds to surface_elements in the direct pass
ElemFaces(name, e) ==
    CASE name \in TetNames -> TetFaces(e)
      [] name \in HexNames -> HexFaces(e)
      [] name \in TriNames -> TriFaces(e)
      [] name \in QuadNames -> QuadFaces(e)
      [] OTHER -> << >>

RECURSIVE BlockFaces(_, _, _)
\* the faces of the elements i.. of one type, in element order
BlockFaces(name, conn, i) ==
    IF i > Len(conn) THEN << >>
    ELSE ElemFaces(name, conn[i]) \o BlockFaces(name, conn, i + 1)

RECURSIVE DirectFrom(_, _, _)
\* the loop over element_types from type i on, acc the faces so far;
\* ok is FALSE when the else branch raised ValueError
DirectFrom(et, i, acc) ==
    IF i > Len(et) THEN [ok |-> TRUE, faces |-> acc]
    ELSE IF Recognized(et[i].name)
         THEN DirectFrom(et, i + 1, acc \o BlockFaces(et[i].name, et[i].conn, 1))
         ELSE [ok |-> FALSE, faces |-> acc]

DirectPass(et) == DirectFrom(et, 1, << >>)

(* ------------------------ fallback boundary pass ----------------------- *)

Min3(a, b, c) == IF a <= b /\ a <= c THEN a ELSE IF b <= c THEN b ELSE c
Max3(a, b, c) == IF a >= b /\ a >= c THEN a ELSE IF b >= c THEN b ELSE c

\* tuple(sorted([a, b, c]))
Sorted3Unsorted(f) == f
Sorted3(f) ==
    LET lo == Min3(f[1], f[2], f[3])
        hi == Max3(f[1], f[2], f[3])
    IN  <<lo, f[1] + f[2] + f[3] - lo - hi, hi>>

\* all_faces is a dict: a sequence of entries in insertion order, keys unique
HasKey(af, key) == \E i \in 1..Len(af) : af[i].key = key

\* if face in all_faces: del all_faces[face] else: all_faces[face] = list(face)
ToggleFaceKeep(af, key) == Append(af, [key |-> key, value |-> key])
ToggleFace(af, key) ==
    IF HasKey(af, key)
    THEN SelectSeq(af, LAMBDA en : en.key # key)
    ELSE Append(af, [key |-> key, value |-> key])

\* the four sorted faces of one tetrahedron, toggled in order
FallbackTet(af, tet) ==
    LET f == TetFaces(tet)
    IN  ToggleFace(ToggleFace(ToggleFace(ToggleFace(af,
            Sorted3(f[1])), Sorted3(f[2])), Sorted3(f[3])), Sorted3(f[4]))

RECURSIVE FallbackBlock(_, _, _)
FallbackBlock(af, conn, i) ==
    IF i > Len(conn) THEN af
    ELSE FallbackBlock(FallbackTet(af, conn[i]), conn, i + 1)

RECURSIVE FallbackFrom(_, _, _)
\* the loop over element_types of the fallback pass; other types are skipped
FallbackFrom(et, i, af) ==
    IF i > Len(et) THEN af
    ELSE IF FallbackTetName(et[i].name)
         THEN FallbackFrom(et, i + 1, FallbackBlock(af, et[i].conn, 1))
         ELSE FallbackFrom(et, i + 1, af)

FallbackPass(et) == FallbackFrom(et, 1, << >>)

\* list(all_faces.values())
Values(af) == [i \in 1..Len(af) |-> af[i].value]

(* ----------------------------- node remapping -------------------------- *)

\* node_map = {tag: i for i, tag in enumerate(node_tags)}
NodeMapOneBased(tags) ==
    [t \in Range(tags) |-> CHOOSE i \in 1..Len(tags) :
        tags[i] = t /\ \A j \in 1..Len(tags) : tags[j] = t => j <= i]
NodeMap(tags) ==
    [t \in Range(tags) |-> (CHOOSE i \in 1..Len(tags) :
        tags[i] = t /\ \A j \in 1..Len(tags) : tags[j] = t => j <= i) - 1]

RECURSIVE RemapFromAbort(_, _, _, _)
RemapFromAbort(faces, nm, i, acc) ==
    IF i > Len(faces) THEN acc
    ELSE IF \A k \in 1..3 : faces[i][k] \in DOMAIN nm
         THEN RemapFromAbort(faces, nm, i + 1,
                  Append(acc, [k \in 1..3 |-> nm[faces[i][k]]]))
         ELSE acc

RECURSIVE RemapFrom(_, _, _, _)
\* the loop over surface_elements: a KeyError skips the face
RemapFrom(faces, nm, i, acc) ==
    IF i > Len(faces) THEN acc
    ELSE IF \A k \in 1..3 : faces[i][k] \in DOMAIN nm
         THEN RemapFrom(faces, nm, i + 1,
                  Append(acc, [k \in 1..3 |-> nm[faces[i][k]]]))
         ELSE RemapFrom(faces, nm, i + 1, acc)

(* ------------------------------- the call ------------------------------ *)

Init ==
    /\ pc = "start"
    /\ msh = NoMesh
    /\ temp_exists = FALSE
    /\ node_tags = << >>
    /\ element_types = << >>
    /\ surface_elements = << >>
    /\ all_faces = << >>
    /\ triangles = << >>
    /\ stl_write_called = FALSE
    /\ stl_written = FALSE
    /\ stl_triangles = << >>
    /\ exc = "none"
    /\ result = "running"

\* an exception leaves the function without passing the try statement
RaiseOutside(e) ==
    /\ exc' = e
    /\ result' = "raised"
    /\ pc' = "done"

\* an exception inside the try body: control goes to the except clause
RaiseInTry(e) ==
    /\ exc' = e
    /\ pc' = "except"
    /\ UNCHANGED result

\* msh = meshio.read(input_file, file_format="abaqus")
ReadInput ==
    /\ pc = "start"
    /\ \/ /\ \E m \in Meshes : msh' = m
          /\ pc' = "write_temp"
          /\ UNCHANGED <<exc, result>>
       \/ /\ RaiseOutside("ReadError")
          /\ UNCHANGED msh
    /\ UNCHANGED <<temp_exists, node_tags, element_types, surface_elements,
                   all_faces, triangles, stl_write_called, stl_written,
                   stl_triangles>>

\* meshio.write(temp_msh_file, msh, file_format="gmsh")
WriteTemp ==
    /\ pc = "write_temp"
    /\ \/ /\ temp_exists' = TRUE
          /\ pc' = "initialize"
          /\ UNCHANGED <<exc, result>>
       \/ /\ temp_exists' \in BOOLEAN
          /\ RaiseOutside("TempWriteError")
    /\ UNCHANGED <<msh, node_tags, element_types, surface_elements,
                   all_faces, triangles, stl_write_called, stl_written,
                   stl_triangles>>

\* gmsh.initialize(); gmsh.option.setNumber("General.Terminal", 1)
GmshInitialize ==
    /\ pc = "initialize"
    /\ \/ /\ pc' = "open"
          /\ UNCHANGED <<exc, result>>
       \/ RaiseOutside("GmshInitError")
    /\ UNCHANGED <<msh, temp_exists, node_tags, element_types,
                   surface_elements, all_faces, triangles, stl_write_called,
                   stl_written, stl_triangles>>

\* gmsh.open, getNodes, getElementTypes: the first statements of the try body
OpenAndHarvest ==
    /\ pc = "open"
    /\ \/ /\ node_tags' = msh.nodes
          /\ element_types' = msh.blocks
          /\ pc' = "classify"
          /\ UNCHANGED <<exc, result>>
       \/ /\ RaiseInTry("GmshError")
          /\ UNCHANGED <<node_tags, element_types>>
    /\ UNCHANGED <<msh, temp_exists, surface_elements, all_faces, triangles,
                   stl_write_called, stl_written, stl_triangles>>

\* for elem_type in element_types: ... else: raise ValueError
Classify ==
    /\ pc = "classify"
    /\ LET d == DirectPass(element_types)
       IN  \/ /\ d.ok
              /\ surface_elements' = d.faces
              /\ pc' = "classified"
              /\ UNCHANGED <<exc, result>>
           \/ /\ ~d.ok
              /\ surface_elements' = d.faces
              /\ RaiseInTry("UnknownElementType")
    /\ UNCHANGED <<msh, temp_exists, node_tags, element_types, all_faces,
                   triangles, stl_write_called, stl_written, stl_triangles>>

\* if not surface_elements: the fallback pass replaces surface_elements
FallbackExtract ==
    /\ pc = "classified"
    /\ surface_elements = << >>
    /\ all_faces' = FallbackPass(element_types)
    /\ surface_elements' = Values(all_faces')
    /\ pc' = "validate"
    /\ UNCHANGED <<msh, temp_exists, node_tags, element_types, triangles,
                   stl_write_called, stl_written, stl_triangles, exc, result>>

\* surface_elements is not empty: the fallback pass is not entered
SkipFallback ==
    /\ pc = "classified"
    /\ surface_elements # << >>
    /\ pc' = "validate"
    /\ UNCHANGED <<msh, temp_exists, node_tags, element_types,
                   surface_elements, all_faces, triangles, stl_write_called,
                   stl_written, stl_triangles, exc, result>>

ValidateNoCheck ==
    /\ pc = "validate"
    /\ pc' = "remap"
    /\ UNCHANGED <<msh, temp_exists, node_tags, element_types,
                   surface_elements, all_faces, triangles, stl_write_called,
                   stl_written, stl_triangles, exc, result>>

\* if not surface_elements: raise ValueError("Could not extract ...")
Validate ==
    /\ pc = "validate"
    /\ \/ /\ surface_elements = << >>
          /\ RaiseInTry("NoSurfaceElements")
       \/ /\ surface_elements # << >>
          /\ pc' = "remap"
          /\ UNCHANGED <<exc, result>>
    /\ UNCHANGED <<msh, temp_exists, node_tags, element_types,
                   surface_elements, all_faces, triangles, stl_write_called,
                   stl_written, stl_triangles>>

\* min(node_tags) and max(node_tags) find a node, since a mesh with a face
\* has one; then the faces are remapped
Remap ==
    /\ pc = "remap"
    /\ triangles' = RemapFrom(surface_elements, NodeMap(node_tags), 1, << >>)
    /\ pc' = "write"
    /\ UNCHANGED <<msh, temp_exists, node_tags, element_types,
                   surface_elements, all_faces, stl_write_called, stl_written,
                   stl_triangles, exc, result>>

\* if len(triangles) > 0: meshio.write(output_file, ...) else: raise
WriteStl ==
    /\ pc = "write"
    /\ \/ /\ Len(triangles) > 0
          /\ stl_write_called' = TRUE
          /\ stl_triangles' = triangles
          /\ stl_written' = TRUE
          /\ pc' = "finally"
          /\ UNCHANGED <<exc, result>>
       \/ /\ Len(triangles) > 0
          /\ stl_write_called' = TRUE
          /\ stl_triangles' = triangles
          /\ stl_written' \in BOOLEAN
          /\ RaiseInTry("WriteError")
       \/ /\ Len(triangles) = 0
          /\ RaiseInTry("NoValidTriangles")
          /\ UNCHANGED <<stl_write_called, stl_triangles, stl_written>>
    /\ UNCHANGED <<msh, temp_exists, node_tags, element_types,
                   surface_elements, all_faces, triangles>>

\* except Exception as e: print; raise
ExceptReraise ==
    /\ pc = "except"
    /\ pc' = "finally"
    /\ UNCHANGED <<msh, temp_exists, node_tags, element_types,
                   surface_elements, all_faces, triangles, stl_write_called,
                   stl_written, stl_triangles, exc, result>>

\* finally: gmsh.finalize(); an exception here leaves the finally clause
GmshFinalize ==
    /\ pc = "finally"
    /\ \/ /\ pc' = "cleanup"
          /\ UNCHANGED <<exc, result>>
       \/ RaiseOutside("GmshFinalizeError")
    /\ UNCHANGED <<msh, temp_exists, node_tags, element_types,
                   surface_elements, all_faces, triangles, stl_write_called,
                   stl_written, stl_triangles>>

\* if os.path.exists(temp_msh_file): os.remove(temp_msh_file); then the call
\* returns, or the exception in flight goes on to the caller
Cleanup ==
    /\ pc = "cleanup"
    /\ \/ /\ temp_exists' = FALSE
          /\ pc' = "done"
          /\ result' = IF exc = "none" THEN "returned" ELSE "raised"
          /\ UNCHANGED exc
       \/ /\ temp_exists
          /\ UNCHANGED temp_exists
          /\ RaiseOutside("RemoveError")
    /\ UNCHANGED <<msh, node_tags, element_types, surface_elements,
                   all_faces, triangles, stl_write_called, stl_written,
                   stl_triangles>>

Next ==
    \/ ReadInput
    \/ WriteTemp
    \/ GmshInitialize
    \/ OpenAndHarvest
    \/ Classify
    \/ FallbackExtract
    \/ SkipFallback
    \/ Validate
    \/ Remap
    \/ WriteStl
    \/ ExceptReraise
    \/ GmshFinalize
    \/ Cleanup

Spec == Init /\ [][Next]_vars

(* ------------------- the fallback pass on its own ---------------------- *)

\* a tetrahedron on four distinct nodes: any four in rising order, and four
\* consecutive ones in falling order (the order sorted() has to undo)
TetChoices ==
    {t \in [1..4 -> 1..MaxTetNode] : \A i \in 1..3 : t[i] < t[i + 1]}
    \cup {[i \in 1..4 |-> b + 4 - i] : b \in 1..(MaxTetNode - 3)}

\* the name of the tetrahedra handed to the fallback pass
FallbackMeshNames == {"Tetrahedron"}

\* line 106 is reached with no face from the direct pass, on one type of
\* tetrahedra under a name the fallback pass accepts
InitFallback ==
    /\ pc = "classified"
    /\ \E n \in FallbackMeshNames, m \in 1..MaxTets :
          \E c \in [1..m -> TetChoices] :
              element_types = <<[name |-> n, conn |-> c]>>
    /\ msh = [nodes |-> Asc(MaxTetNode), blocks |-> element_types]
    /\ node_tags = Asc(MaxTetNode)
    /\ temp_exists = TRUE
    /\ surface_elements = << >>
    /\ all_faces = << >>
    /\ triangles = << >>
    /\ stl_write_called = FALSE
    /\ stl_written = FALSE
    /\ stl_triangles = << >>
    /\ exc = "none"
    /\ result = "running"

NextFallback == FallbackExtract

SpecFallback == InitFallback /\ [][NextFallback]_vars

(* ------------------------ what the claims speak of --------------------- *)

\* exceptions raised by meshio, gmsh or os rather than by the function
ExternalErrors ==
    {"ReadError", "TempWriteError", "GmshInitError", "GmshError", "WriteError",
     "GmshFinalizeError", "RemoveError"}

RECURSIVE CountFrom(_, _, _)
\* the elements of the types from i on whose name is in names
CountFrom(et, i, names) ==
    IF i > Len(et) THEN 0
    ELSE (IF et[i].name \in names THEN Len(et[i].conn) ELSE 0)
         + CountFrom(et, i + 1, names)

NumTets == CountFrom(msh.blocks, 1, TetNames)
NumHexes == CountFrom(msh.blocks, 1, HexNames)
NumTris == CountFrom(msh.blocks, 1, TriNames)
NumQuads == CountFrom(msh.blocks, 1, QuadNames)

\* the input has a type under a name that none of the four lists holds
HasUnknownType ==
    \E i \in 1..Len(msh.blocks) :
        /\ msh.blocks[i].name \notin TetNames
        /\ msh.blocks[i].name \notin HexNames
        /\ msh.blocks[i].name \notin TriNames
        /\ msh.blocks[i].name \notin QuadNames

HexOnly ==
    /\ msh.blocks # << >>
    /\ \A i \in 1..Len(msh.blocks) : msh.blocks[i].name \in HexNames

\* positions of the call after the classification loop has ended normally
PastClassify == {"classified", "validate", "remap", "write"}

\* the faces whose three identifiers are all node identifiers
Mappable == SelectSeq(surface_elements, LAMBDA f : Range(f) \subseteq Range(node_tags))

\* the zero-based position of an identifier in node_tags
Pos(tag) == (CHOOSE i \in 1..Len(node_tags) : node_tags[i] = tag) - 1

\* faces the claims expect of one element of a type
FacesPer(name) ==
    CASE name \in TetNames -> 4
      [] name \in HexNames -> 12
      [] name \in TriNames -> 1
      [] name \in QuadNames -> 2
      [] OTHER -> 0

RECURSIVE ElemOwners(_, _, _)
ElemOwners(name, conn, j) ==
    IF j > Len(conn) THEN << >>
    ELSE [k \in 1..FacesPer(name) |-> conn[j]] \o ElemOwners(name, conn, j + 1)

RECURSIVE OwnersFrom(_, _)
\* for every expected face, in order, the element it has to come from
OwnersFrom(et, i) ==
    IF i > Len(et) THEN << >>
    ELSE ElemOwners(et[i].name, et[i].conn, 1) \o OwnersFrom(et, i + 1)

\* the volumetric elements of the input that have a face on the nodes of f
SolidsWithFace(f) ==
    {be \in {<<b, e>> \in (1..Len(msh.blocks)) \X (1..MaxElems + 1) :
                /\ e <= Len(msh.blocks[b].conn)
                /\ msh.blocks[b].name \in TetNames \cup HexNames} :
        LET fs == ElemFaces(msh.blocks[be[1]].name, msh.blocks[be[1]].conn[be[2]])
        IN  \E k \in 1..Len(fs) : Range(fs[k]) = Range(f)}

(* ------------------------------- claims -------------------------------- *)

\* C1: on every exit path of the call (a normal return or an exception of
\* any step), temp_conversion.msh does not exist once the call has ended.
TempFileRemovedOnExit == pc = "done" => ~temp_exists

\* C2: when the mesh has an element type under an unrecognized name, the
\* call never gets past the classification loop, the STL write is never
\* executed, and the call ends in an exception: the ValueError of the
\* unknown type, unless a library call itself raised.
UnknownTypeIsFatal ==
    HasUnknownType =>
        /\ pc \notin PastClassify
        /\ ~stl_write_called
        /\ pc = "done" =>
              /\ result = "raised"
              /\ exc \notin ExternalErrors => exc = "UnknownElementType"

\* C2 witness: a recognized type was classified first, then the unknown type
\* raised, and the call ended with that ValueError.
UnknownTypeRaised ==
    /\ pc = "done"
    /\ HasUnknownType
    /\ exc = "UnknownElementType"
    /\ result = "raised"
    /\ surface_elements # << >>
    /\ ~stl_write_called

\* C3: the remapping and the STL write are reached only with at least one
\* face; a mesh from which neither pass derives a face ends in an exception:
\* 'Could not extract any surface elements', unless a library call raised.
ZeroFacesIsFatal ==
    /\ (pc \in {"remap", "write"} \/ stl_write_called) => surface_elements # << >>
    /\ (~HasUnknownType /\ NumTets + NumHexes + NumTris + NumQuads = 0) =>
          /\ ~stl_write_called
          /\ pc = "done" =>
                /\ result = "raised"
                /\ exc \notin ExternalErrors => exc = "NoSurfaceElements"

\* C3 witness: the call ended with 'Could not extract any surface elements'.
NoSurfaceRaised ==
    /\ pc = "done"
    /\ exc = "NoSurfaceElements"
    /\ result = "raised"
    /\ surface_elements = << >>
    /\ ~stl_write_called

\* C4: every index of every triangle handed to the STL writer is in
\* 0..number_of_nodes-1 and is the position in node_tags of the identifier
\* the source face referenced; only faces whose identifiers are all in
\* node_tags reach the writer.
StlIndicesValid ==
    stl_write_called =>
        LET m == Mappable
        IN  /\ Len(stl_triangles) = Len(m)
            /\ \A k \in 1..Len(stl_triangles) : \A j \in 1..3 :
                  /\ stl_triangles[k][j] \in 0..(Len(node_tags) - 1)
                  /\ node_tags[stl_triangles[k][j] + 1] = m[k][j]

\* C4 witness: an STL was written from node identifiers whose position is
\* not the identifier minus one.
StlWrittenPermuted ==
    /\ stl_written
    /\ Len(stl_triangles) > 0
    /\ node_tags = Desc(MaxNode)
    /\ result = "returned"

\* C5: the direct pass emits 4 faces per tetrahedron, 12 per hexahedron, 1
\* per triangle and 2 per quadrilateral, each of 3 identifiers of its own
\* element.
DirectFaceCount ==
    pc = "classified" =>
        LET owners == OwnersFrom(element_types, 1)
        IN  /\ Len(surface_elements) =
                  4 * NumTets + 12 * NumHexes + NumTris + 2 * NumQuads
            /\ Len(owners) = Len(surface_elements)
            /\ \A i \in 1..Len(surface_elements) :
                  /\ Len(surface_elements[i]) = 3
                  /\ Range(surface_elements[i]) \subseteq Range(owners[i])

\* C5 witness: the direct pass has ended on a mesh of two hexahedra and two
\* quadrilaterals, with 28 faces.
DirectPassMixed ==
    /\ pc = "classified"
    /\ NumHexes = 2
    /\ NumQuads = 2
    /\ Len(surface_elements) = 28

\* C6: when the mesh has no triangle and no quadrilateral elements, only
\* faces that belong to exactly one solid are in the face set that is
\* remapped and written; a face shared by two solids is discarded.
BoundaryFacesOnly ==
    (pc \in {"remap", "write"} /\ NumTris + NumQuads = 0) =>
        \A i \in 1..Len(surface_elements) :
            Cardinality(SolidsWithFace(surface_elements[i])) = 1

\* C8 as stated: hexahedra alone give an empty face set and a failure, and
\* no STL is written.
HexOnlyFails ==
    HexOnly =>
        /\ pc \in PastClassify => surface_elements = << >>
        /\ ~stl_write_called
        /\ pc = "done" => result = "raised"

\* C8 amended: hexahedra alone are handled by the direct pass, which emits
\* 12 faces per hexahedron; the fallback pass is not entered and neither the
\* unknown-type nor the no-surface failure occurs.
HexOnlyHandledDirectly ==
    HexOnly =>
        /\ pc \in PastClassify =>
              /\ Len(surface_elements) = 12 * NumHexes
              /\ all_faces = << >>
        /\ exc \notin {"NoSurfaceElements", "UnknownElementType"}

\* C8 witness: a mesh of hexahedra alone was converted and the STL written.
HexOnlyConverted ==
    /\ HexOnly
    /\ pc = "done"
    /\ result = "returned"
    /\ stl_written
    /\ Len(stl_triangles) = 12 * NumHexes

\* C10: a face with an identifier that is not in the node map is dropped on
\* its own: the triangle list is the mappable faces, once each and in their
\* order, translated to positions; 'No valid triangles to write' is raised
\* only when every face was dropped.
RemapDropsOnlyDangling ==
    /\ pc = "write" =>
          LET m == Mappable
          IN  /\ Len(triangles) = Len(m)
              /\ \A k \in 1..Len(triangles) :
                    triangles[k] = [j \in 1..3 |-> Pos(m[k][j])]
    /\ exc = "NoValidTriangles" => (Mappable = << >> /\ surface_elements # << >>)

\* C10 witness: a face was dropped, a later face was kept, and the STL was
\* written from the kept ones.
SomeFacesDropped ==
    /\ stl_written
    /\ result = "returned"
    /\ Len(stl_triangles) < Len(surface_elements)
    /\ \E i, j \in 1..Len(surface_elements) :
          /\ i < j
          /\ ~(Range(surface_elements[i]) \subseteq Range(node_tags))
          /\ Range(surface_elements[j]) \subseteq Range(node_tags)

\* the canonical face keys: three distinct identifiers in rising order
SortedTriples ==
    {t \in (1..MaxTetNode) \X (1..MaxTetNode) \X (1..MaxTetNode) :
        t[1] < t[2] /\ t[2] < t[3]}

\* the tetrahedra the fallback pass processes, as <<type, element>> indices
FallbackTetIndices ==
    {be \in (1..Len(element_types)) \X (1..MaxTets + 1) :
        /\ FallbackTetName(element_types[be[1]].name)
        /\ be[2] <= Len(element_types[be[1]].conn)}

\* how often the face on the nodes of key is observed: a tetrahedron on four
\* distinct nodes shows each three of them as one face
TimesSeen(tets, key) ==
    Cardinality({be \in tets :
        Range(key) \subseteq Range(element_types[be[1]].conn[be[2]])})

\* C9: after the fallback pass, a canonical face key is in all_faces exactly
\* when the face was observed an odd number of times, no key is there twice,
\* and every value is the sorted node list of its key.
FallbackKeepsOddFaces ==
    pc = "validate" =>
        LET tets == FallbackTetIndices
        IN  /\ \A key \in SortedTriples :
                  HasKey(all_faces, key) <=> TimesSeen(tets, key) % 2 = 1
            /\ \A i \in 1..Len(all_faces) :
                  /\ all_faces[i].key \in SortedTriples
                  /\ all_faces[i].value = all_faces[i].key
                  /\ \A j \in 1..Len(all_faces) :
                        all_faces[j].key = all_faces[i].key => j = i
            /\ surface_elements = Values(all_faces)

\* C9 witness: one face was observed twice and is gone, another was observed
\* three times and is there.
FallbackSawTwiceAndThrice ==
    /\ pc = "validate"
    /\ LET tets == FallbackTetIndices
       IN  /\ \E key \in SortedTriples :
                 TimesSeen(tets, key) = 2 /\ ~HasKey(all_faces, key)
           /\ \E key \in SortedTriples :
                 TimesSeen(tets, key) = 3 /\ HasKey(all_faces, key)

\* the mesh is two tetrahedra with exactly three common nodes
TwoTetsSharingOneFace ==
    /\ Len(element_types) = 1
    /\ Len(element_types[1].conn) = 2
    /\ Cardinality(Range(element_types[1].conn[1])
                   \cap Range(element_types[1].conn[2])) = 3

====
